---- MODULE Spec2Model ----
(***************************************************************************)
(* Remote-command execution gateway of the Remote Server Manager API.      *)
(*                                                                         *)
(* The module models                                                       *)
(*   - security.py   CommandValidator.sanitize_command / is_command_allowed*)
(*   - ssh_manager.py SSHManager.execute_command / test_connection         *)
(*   - app.py        the execute_command route                             *)
(* Command strings are sequences of one-character strings, so that the     *)
(* regular expressions, str.strip, str.lower and str.startswith of the     *)
(* source are computed character by character.                             *)
(***************************************************************************)
EXTENDS Integers, Sequences, FiniteSets, TLC

(***************************************************************************)
(* Bounds of the model.                                                    *)
(***************************************************************************)
\* A raw command is the concatenation of at most MaxPieces pieces of Pieces.
MaxPieces == 3

\* The number of execute requests served concurrently by the event loop.
NumTasks == 2

(***************************************************************************)
(* Characters.                                                             *)
(***************************************************************************)
\* Characters matched by \s of Python's re and removed by str.strip().
Whitespace == {" ", "\t", "\n", "\r", "\f"}

UpperLetters == <<"A","B","C","D","E","F","G","H","I","J","K","L","M",
                  "N","O","P","Q","R","S","T","U","V","W","X","Y","Z">>

LowerLetters == <<"a","b","c","d","e","f","g","h","i","j","k","l","m",
                  "n","o","p","q","r","s","t","u","v","w","x","y","z">>

OctalDigits == {"0","1","2","3","4","5","6","7"}

\* The grave accent (backquote, U+0060), which the lexer of TLA+ does not
\* accept inside a string literal: the one character written as a name.
Backquote == "BACKQUOTE"

\* The character class of sanitize_command: ; & | backquote $ < >
DangerousChars == {";", "&", "|", Backquote, "$", "<", ">"}

(***************************************************************************)
(* String helpers (Python str methods and regex building blocks).          *)
(***************************************************************************)
SetMin(S) == CHOOSE x \in S : \A y \in S : x <= y

SetMax(S) == CHOOSE x \in S : \A y \in S : x >= y

\* str.lower() on one character.
LowerChar(c) ==
    IF \E i \in 1..26 : UpperLetters[i] = c
    THEN LowerLetters[CHOOSE i \in 1..26 : UpperLetters[i] = c]
    ELSE c

\* str.lower()
lower(s) == [i \in 1..Len(s) |-> LowerChar(s[i])]

\* str.strip(): leading and trailing whitespace removed.
strip(s) ==
    LET keep == {i \in 1..Len(s) : s[i] \notin Whitespace}
    IN  IF keep = {} THEN <<>> ELSE SubSeq(s, SetMin(keep), SetMax(keep))

\* The literal lit occurs in s at position i.
LitAt(s, i, lit) ==
    /\ i >= 1
    /\ i + Len(lit) - 1 <= Len(s)
    /\ SubSeq(s, i, i + Len(lit) - 1) = lit

\* Python's substring test, sub in s.
Contains(s, sub) == \E i \in 1..(Len(s) + 1) : LitAt(s, i, sub)

\* str.startswith()
startswith(s, prefix) == LitAt(s, 1, prefix)

\* s[a..b] is whitespace only (an empty range qualifies): a run of \s.
AllWS(s, a, b) == \A k \in a..b : s[k] \in Whitespace

\* s[a..b] holds no newline: what .* can cross.
NoNL(s, a, b) == \A k \in a..b : s[k] # "\n"

\* re.sub(r'\s+', ' ', s): every maximal run of whitespace becomes one space.
RECURSIVE CollapseWhitespace(_)
CollapseWhitespace(s) ==
    IF s = <<>> THEN <<>>
    ELSE IF Head(s) \in Whitespace
         THEN IF Len(s) > 1 /\ s[2] \in Whitespace
              THEN CollapseWhitespace(Tail(s))
              ELSE <<" ">> \o CollapseWhitespace(Tail(s))
         ELSE <<Head(s)>> \o CollapseWhitespace(Tail(s))

\* RemoveDangerousChars with "$" missing from the character class.
RemoveDangerousChars_NoDollar(s) ==
    SelectSeq(s, LAMBDA c : c \notin (DangerousChars \ {"$"}))

\* re.sub of the dangerous character class by '': every one deleted.
RemoveDangerousChars(s) == SelectSeq(s, LAMBDA c : c \notin DangerousChars)

(***************************************************************************)
(* config.py: Settings.BLOCKED_COMMANDS                                    *)
(***************************************************************************)
BLOCKED_COMMANDS ==
    << <<"r","m"," ","-","r","f">>,
       <<"r","m"," ","-","f","r">>,
       <<"r","m"," ","-","r">>,
       <<"d","d">>,
       <<"m","k","f","s">>,
       <<"s","h","u","t","d","o","w","n">>,
       <<"r","e","b","o","o","t">>,
       <<"h","a","l","t">>,
       <<"p","o","w","e","r","o","f","f">>,
       <<"i","n","i","t">>,
       <<"k","i","l","l">>,
       <<"c","h","m","o","d"," ","7","7","7">> >>

(***************************************************************************)
(* security.py: the dangerous_patterns, each as re.search computes it.     *)
(***************************************************************************)
\* rm\s+.*-.*[rf]
PatRmFlags(s) ==
    \E i \in 1..Len(s) :
      /\ LitAt(s, i, <<"r","m">>)
      /\ \E m \in (i+2)..Len(s) :
           /\ AllWS(s, i+2, m)
           /\ \E j \in (m+1)..Len(s) :
                /\ s[j] = "-"
                /\ NoNL(s, m+1, j-1)
                /\ \E k \in (j+1)..Len(s) :
                     /\ s[k] \in {"r", "f"}
                     /\ NoNL(s, j+1, k-1)

\* :\(\)\{.*;\s*:
PatForkBomb(s) ==
    \E i \in 1..Len(s) :
      /\ LitAt(s, i, <<":","(",")","{">>)
      /\ \E j \in (i+4)..Len(s) :
           /\ s[j] = ";"
           /\ NoNL(s, i+4, j-1)
           /\ \E k \in (j+1)..Len(s) :
                /\ s[k] = ":"
                /\ AllWS(s, j+1, k-1)

\* chmod\s+[0-7]{3,4}\s+.*
PatChmod(s) ==
    \E i \in 1..Len(s) :
      /\ LitAt(s, i, <<"c","h","m","o","d">>)
      /\ \E m \in (i+5)..Len(s) :
           /\ AllWS(s, i+5, m)
           /\ \E n \in {3, 4} :
                /\ m + n + 1 <= Len(s)
                /\ \A k \in (m+1)..(m+n) : s[k] \in OctalDigits
                /\ s[m+n+1] \in Whitespace

\* >\s*/dev/sd[a-z]
PatDiskDevice(s) ==
    \E i \in 1..Len(s) :
      /\ s[i] = ">"
      /\ \E m \in i..Len(s) :
           /\ AllWS(s, i+1, m)
           /\ LitAt(s, m+1, <<"/","d","e","v","/","s","d">>)
           /\ m + 8 <= Len(s)
           /\ \E l \in 1..26 : LowerLetters[l] = s[m+8]

\* dd\s+.*if=.*of=
PatDd(s) ==
    \E i \in 1..Len(s) :
      /\ LitAt(s, i, <<"d","d">>)
      /\ \E m \in (i+2)..Len(s) :
           /\ AllWS(s, i+2, m)
           /\ \E j \in (m+1)..Len(s) :
                /\ LitAt(s, j, <<"i","f","=">>)
                /\ NoNL(s, m+1, j-1)
                /\ \E k \in (j+3)..Len(s) :
                     /\ LitAt(s, k, <<"o","f","=">>)
                     /\ NoNL(s, j+3, k-1)

\* mkfs\s+
PatMkfs(s) ==
    \E i \in 1..Len(s) :
      /\ LitAt(s, i, <<"m","k","f","s">>)
      /\ i + 4 <= Len(s)
      /\ s[i+4] \in Whitespace

\* >\s*/proc/
PatProc(s) ==
    \E i \in 1..Len(s) :
      /\ s[i] = ">"
      /\ \E m \in i..Len(s) :
           /\ AllWS(s, i+1, m)
           /\ LitAt(s, m+1, <<"/","p","r","o","c","/">>)

\* any(re.search(pattern, s) for pattern in dangerous_patterns)
dangerous_patterns(s) ==
    \/ PatRmFlags(s)
    \/ PatForkBomb(s)
    \/ PatChmod(s)
    \/ PatDiskDevice(s)
    \/ PatDd(s)
    \/ PatMkfs(s)
    \/ PatProc(s)

(***************************************************************************)
(* security.py: allowed_prefixes                                           *)
(***************************************************************************)
allowed_prefixes ==
    << <<"l","s">>, <<"p","w","d">>, <<"w","h","o","a","m","i">>,
       <<"d","a","t","e">>, <<"u","p","t","i","m","e">>,
       <<"f","r","e","e">>, <<"d","f">>, <<"p","s">>,
       <<"c","a","t"," ">>, <<"g","r","e","p"," ">>, <<"t","a","i","l"," ">>,
       <<"h","e","a","d"," ">>, <<"w","c"," ">>, <<"f","i","n","d"," ">>,
       <<"d","u"," ">>, <<"u","n","a","m","e">>, <<"e","c","h","o"," ">>,
       <<"c","d"," ">>, <<"m","k","d","i","r"," ">>,
       <<"t","o","u","c","h"," ">>, <<"c","p"," ">>, <<"m","v"," ">> >>

\* command_lower = command.lower().strip()
command_lower(command) == strip(lower(command))

\* for blocked in settings.BLOCKED_COMMANDS: if blocked in command_lower
HasBlocked(s) ==
    \E b \in 1..Len(BLOCKED_COMMANDS) : Contains(s, BLOCKED_COMMANDS[b])

\* for prefix in allowed_prefixes: if command_lower.startswith(prefix)
HasAllowedPrefix(s) ==
    \E p \in 1..Len(allowed_prefixes) : startswith(s, allowed_prefixes[p])

\* CommandValidator.is_command_allowed
is_command_allowed(command) ==
    LET cl == command_lower(command)
    IN  IF HasBlocked(cl) THEN FALSE
        ELSE IF dangerous_patterns(cl) THEN FALSE
        ELSE IF HasAllowedPrefix(cl) THEN TRUE
        ELSE FALSE

\* CommandValidator.sanitize_command
sanitize_command(command) ==
    RemoveDangerousChars(CollapseWhitespace(strip(command)))

(***************************************************************************)
(* Inputs: the raw commands a caller submits.                              *)
(***************************************************************************)
\* Fragments of command lines: verbs of the allow list, a blocked word, a
\* flagged rm, whitespace, dangerous characters, an upper-case verb.
Pieces ==
    << <<"l","s">>, <<"c","a","t">>, <<" ">>, <<"\t">>, <<";">>, <<"$">>,
       <<"o","f">>, <<"k","i","l","l">>, <<"L","S">>,
       <<"r","m"," ","-","f">> >>

RECURSIVE Concatenations(_)
Concatenations(n) ==
    IF n = 0 THEN {<<>>}
    ELSE LET shorter == Concatenations(n - 1)
         IN  shorter \cup
             {c \o Pieces[p] : c \in shorter, p \in 1..Len(Pieces)}

RawCommands == Concatenations(MaxPieces)

\* The (password, ssh_key) arguments the caller passes: a password, key
\* material, or neither.
Auths == {"password", "key", "none"}

(***************************************************************************)
(* paramiko: exception classes and what the library raises.                *)
(***************************************************************************)
\* isinstance(e, paramiko.AuthenticationException)
IsAuthenticationException(e) ==
    e \in {"AuthenticationException", "PasswordRequiredException"}

\* isinstance(e, paramiko.SSHException)
IsSSHException(e) ==
    IsAuthenticationException(e) \/ e = "SSHException"

\* RSAKey.from_private_key(key_file): the key parses, is not a valid key
\* (SSHException), or is encrypted (PasswordRequiredException).
KeyParseOutcomes ==
    { [cause |-> "ok",            exc |-> "none"],
      [cause |-> "bad_key",       exc |-> "SSHException"],
      [cause |-> "encrypted_key", exc |-> "PasswordRequiredException"] }

\* client.connect(...): the session is established, or the failure and the
\* exception class paramiko raises for it.  A host that cannot be reached
\* raises socket.error (OSError), a connect timeout socket.timeout, and a
\* connection dropped during the handshake whatever the transport thread
\* saved: SSHException, the socket error or EOFError.
ConnectOutcomes ==
    { [cause |-> "ok",                 exc |-> "none"],
      [cause |-> "auth_rejected",      exc |-> "AuthenticationException"],
      [cause |-> "negotiation_failed", exc |-> "SSHException"],
      [cause |-> "host_unreachable",   exc |-> "OSError"],
      [cause |-> "connect_timeout",    exc |-> "socket.timeout"],
      [cause |-> "connection_reset",   exc |-> "SSHException"],
      [cause |-> "connection_reset",   exc |-> "OSError"],
      [cause |-> "connection_reset",   exc |-> "EOFError"] }

\* client.exec_command(...): the channel opens and the request is accepted,
\* or the session was lost (SSHException from open_session).
ExecOutcomes ==
    { [cause |-> "ok",           exc |-> "none"],
      [cause |-> "session_lost", exc |-> "SSHException"] }

\* stdout.read() / stderr.read() on a channel with settimeout(30): the
\* streams end, or no data arrives within the timeout (socket.timeout).
ReadOutcomes ==
    { [cause |-> "ok",              exc |-> "none"],
      [cause |-> "command_timeout", exc |-> "socket.timeout"] }

\* stdout.channel.recv_exit_status()
ExitCodes == {0, 1}

\* "echo 'Connection successful'", the fixed command of test_connection.
ProbeCommand ==
    <<"e","c","h","o"," ","'","C","o","n","n","e","c","t","i","o","n"," ",
      "s","u","c","c","e","s","s","f","u","l","'">>

(***************************************************************************)
(* models.py / database.py: server records.                                *)
(***************************************************************************)
\* Optional[str] values of the password and ssh_key fields: "" stands for
\* None or the empty string (both falsy), the others for secrets.
SshKeys == {"", "new-key"}

\* base64.b64encode(password.encode()).decode(): the stored form of a
\* password differs from the password.
B64Encode(p) == <<"b64", p>>

\* base64.b64decode(...).decode()
B64Decode(e) == e[2]

\* ServerCreate bodies a caller can submit.
Submissions ==
    [use_password : BOOLEAN,
     password : {"", "new-password"},
     ssh_key : SshKeys]

\* No ServerCreate body: the request is not a server management request.
NoSubmission == [use_password |-> FALSE, password |-> "", ssh_key |-> ""]

\* server_id values of update_server requests: 1 is stored, 2 is not.
ServerIds == {1, 2}

\* The server store before the request: one server, created earlier with a
\* password that passed the probe.
StoredServers ==
    << [id |-> 1, use_password |-> TRUE,
        password |-> B64Encode("old-password"), ssh_key |-> ""] >>

\* test_connection has not been called by a route.
NoProbe == [called |-> FALSE, password |-> "", ssh_key |-> ""]

\* password=server.password if server.use_password else None
PasswordArg(sub) == IF sub.use_password THEN sub.password ELSE ""

\* ssh_key=server.ssh_key if not server.use_password else None
SshKeyArg(sub) == IF ~sub.use_password THEN sub.ssh_key ELSE ""

\* Which branch of test_connection the arguments select: if ssh_key / elif
\* password / else.
AuthOf(password, ssh_key) ==
    IF ssh_key # "" THEN "key"
    ELSE IF password # "" THEN "password"
    ELSE "none"

\* server_data = server.dict(), with the password encoded when it is truthy
\* (JSONDatabase.create_server, JSONDatabase.update_server).
StoredFields(sub) ==
    [use_password |-> sub.use_password,
     password |-> IF sub.password # "" THEN B64Encode(sub.password) ELSE "",
     ssh_key |-> sub.ssh_key]

(***************************************************************************)
(* State.                                                                  *)
(***************************************************************************)
VARIABLES
    op,          \* "execute": the execute route; "test": test_connection
    raw,         \* command_request.command, as submitted
    auth,        \* which of password / ssh_key the call receives
    pc,          \* position of the invocation
    command,     \* the route's local `command` (after sanitize_command)
    checked,     \* the argument is_command_allowed was last called with
    verdict,     \* "none" | "allowed" | "rejected": what it returned
    client,      \* "None" | "created" | "connected" | "closed"
    exc,         \* class of the exception in flight, "none" if none
    cause,       \* what went wrong first, "none" if nothing
    net,         \* network actions performed, in order
    outcome,     \* what SSHManager.execute_command delivered
    exit_code,   \* exit status of the remote command
    test_result, \* return value of test_connection
    status,      \* HTTP status of the route's response, 0 while unanswered
    logs,        \* the log store: records written by db.create_log
    servers,     \* the server store (servers.json): the stored records
    submitted,   \* the ServerCreate body of a create_server / update_server
    target,      \* server_id of an update_server request, 0 otherwise
    probe,       \* the credentials test_connection was called with
    tpc,         \* concurrent requests: position of each request's task
    running,     \* the task holding the event loop's thread, 0 if none
    tclient,     \* each task's SSH client: "None" | "open" | "closed"
    cancelled,   \* whether the caller of each request has aborted it
    tstatus,     \* each request's HTTP status, 0 while unanswered
    tlogs,       \* each task's local `logs` list inside create_log
    logfile      \* content of logs.json: the records, by task

\* The state of the server management routes.
srv == <<servers, submitted, target, probe>>

\* The state of the concurrently served execute requests.
conc == <<tpc, running, tclient, cancelled, tstatus, tlogs, logfile>>

\* The state of a single invocation.
single == <<op, raw, auth, pc, command, checked, verdict, client, exc, cause,
            net, outcome, exit_code, test_result, status, logs, srv>>

vars == <<single, conc>>

\* The concurrently served requests.
Tasks == 1..NumTasks

\* No request is being served concurrently.
ConcIdle ==
    /\ tpc = [t \in Tasks |-> "idle"]
    /\ running = 0
    /\ tclient = [t \in Tasks |-> "None"]
    /\ cancelled = [t \in Tasks |-> FALSE]
    /\ tstatus = [t \in Tasks |-> 0]
    /\ tlogs = [t \in Tasks |-> <<>>]
    /\ logfile = <<>>

Init ==
    /\ \/ /\ op = "execute"
          /\ raw \in RawCommands
          /\ auth = "unset"
          /\ pc = "route_get_server"
          /\ submitted = NoSubmission
          /\ target = 0
       \/ /\ op = "test"
          /\ raw = <<>>
          /\ auth \in Auths
          /\ pc = "test_create_client"
          /\ submitted = NoSubmission
          /\ target = 0
       \/ /\ op = "create_server"
          /\ raw = <<>>
          /\ auth = "unset"
          /\ pc = "create_check"
          /\ submitted \in Submissions
          /\ target = 0
       \/ /\ op = "update_server"
          /\ raw = <<>>
          /\ auth = "unset"
          /\ pc = "update_get_server"
          /\ submitted \in Submissions
          /\ target \in ServerIds
    /\ servers = StoredServers
    /\ probe = NoProbe
    /\ ConcIdle
    /\ command = <<>>
    /\ checked = <<>>
    /\ verdict = "none"
    /\ client = "None"
    /\ exc = "none"
    /\ cause = "none"
    /\ net = <<>>
    /\ outcome = "none"
    /\ exit_code = -1
    /\ test_result = "none"
    /\ status = 0
    /\ logs = <<>>

(***************************************************************************)
(* app.py: the execute_command route, up to the call of the SSH manager.   *)
(***************************************************************************)
\* server = await db.get_server(...); 404 when there is none.  Otherwise the
\* stored record decides which credential the call will receive.
RouteGetServer ==
    /\ op = "execute"
    /\ pc = "route_get_server"
    /\ \E found \in BOOLEAN :
         IF found
         THEN /\ \E a \in Auths : auth' = a
              /\ pc' = "route_sanitize"
              /\ status' = status
         ELSE /\ auth' = auth
              /\ pc' = "done"
              /\ status' = 404
    /\ UNCHANGED <<conc, srv, op, raw, command, checked, verdict, client, exc, cause,
                   net, outcome, exit_code, test_result, logs>>

\* RouteSanitize passing the submitted command on as it is.
RouteSanitize_PassRaw ==
    /\ pc = "route_sanitize"
    /\ command' = raw
    /\ pc' = "ssh_validate"
    /\ UNCHANGED <<conc, srv, op, raw, auth, checked, verdict, client, exc, cause, net,
                   outcome, exit_code, test_result, status, logs>>

\* command = validator.sanitize_command(command_request.command), then the
\* call of ssh_manager.execute_command(..., command=command).
RouteSanitize ==
    /\ pc = "route_sanitize"
    /\ command' = sanitize_command(raw)
    /\ pc' = "ssh_validate"
    /\ UNCHANGED <<conc, srv, op, raw, auth, checked, verdict, client, exc, cause, net,
                   outcome, exit_code, test_result, status, logs>>

(***************************************************************************)
(* ssh_manager.py: SSHManager.execute_command                              *)
(***************************************************************************)
\* SSHValidate with the raise missing: the verdict is computed and ignored.
SSHValidate_NoRaise ==
    /\ pc = "ssh_validate"
    /\ checked' = command
    /\ verdict' = IF is_command_allowed(command) THEN "allowed" ELSE "rejected"
    /\ pc' = "ssh_create_client"
    /\ UNCHANGED <<conc, srv, op, raw, auth, command, client, exc, cause, net, outcome,
                   exit_code, test_result, status, logs>>

\* if not validator.is_command_allowed(command): raise ValueError(...)
SSHValidate ==
    /\ pc = "ssh_validate"
    /\ checked' = command
    /\ IF is_command_allowed(command)
       THEN /\ verdict' = "allowed"
            /\ pc' = "ssh_create_client"
            /\ UNCHANGED <<exc, cause>>
       ELSE /\ verdict' = "rejected"
            /\ exc' = "ValueError"
            /\ cause' = "policy"
            /\ pc' = "ssh_except"
    /\ UNCHANGED <<conc, srv, op, raw, auth, command, client, net, outcome, exit_code,
                   test_result, status, logs>>

\* client = paramiko.SSHClient(); client.set_missing_host_key_policy(...)
SSHCreateClient ==
    /\ pc = "ssh_create_client"
    /\ client' = "created"
    /\ pc' = "ssh_connect"
    /\ UNCHANGED <<conc, srv, op, raw, auth, command, checked, verdict, exc, cause, net,
                   outcome, exit_code, test_result, status, logs>>

\* client.connect(...): one connection attempt and its result.  `next` is
\* the position after a successful connect, `handler` the except clauses.
Connect(next, handler) ==
    /\ net' = Append(net, [kind |-> "connect", cmd |-> <<>>])
    /\ \E o \in ConnectOutcomes :
         IF o.cause = "ok"
         THEN /\ client' = "connected"
              /\ pc' = next
              /\ UNCHANGED <<exc, cause>>
         ELSE /\ exc' = o.exc
              /\ cause' = o.cause
              /\ pc' = handler
              /\ client' = client

\* if ssh_key: private_key = RSAKey.from_private_key(...); client.connect(pkey=...)
SSHConnectKey ==
    /\ pc = "ssh_connect"
    /\ auth = "key"
    /\ \E k \in KeyParseOutcomes :
         IF k.cause = "ok"
         THEN Connect("ssh_exec", "ssh_except")
         ELSE /\ exc' = k.exc
              /\ cause' = k.cause
              /\ pc' = "ssh_except"
              /\ UNCHANGED <<client, net>>
    /\ UNCHANGED <<conc, srv, op, raw, auth, command, checked, verdict, outcome,
                   exit_code, test_result, status, logs>>

\* elif password: client.connect(password=...)
SSHConnectPassword ==
    /\ pc = "ssh_connect"
    /\ auth = "password"
    /\ Connect("ssh_exec", "ssh_except")
    /\ UNCHANGED <<conc, srv, op, raw, auth, command, checked, verdict, outcome,
                   exit_code, test_result, status, logs>>

\* SSHConnectNone going on to connect with neither password nor key.
SSHConnectNone_Connects ==
    /\ pc = "ssh_connect"
    /\ auth = "none"
    /\ Connect("ssh_exec", "ssh_except")
    /\ UNCHANGED <<conc, srv, op, raw, auth, command, checked, verdict, outcome,
                   exit_code, test_result, status, logs>>

\* else: raise ValueError("Either password or SSH key must be provided")
SSHConnectNone ==
    /\ pc = "ssh_connect"
    /\ auth = "none"
    /\ exc' = "ValueError"
    /\ cause' = "no_credential"
    /\ pc' = "ssh_except"
    /\ UNCHANGED <<conc, srv, op, raw, auth, command, checked, verdict, client, net,
                   outcome, exit_code, test_result, status, logs>>

\* stdin, stdout, stderr = client.exec_command(command, timeout=30)
SSHExec ==
    /\ pc = "ssh_exec"
    /\ net' = Append(net, [kind |-> "exec", cmd |-> command])
    /\ \E o \in ExecOutcomes :
         IF o.cause = "ok"
         THEN /\ pc' = "ssh_read"
              /\ UNCHANGED <<exc, cause>>
         ELSE /\ exc' = o.exc
              /\ cause' = o.cause
              /\ pc' = "ssh_except"
    /\ UNCHANGED <<conc, srv, op, raw, auth, command, checked, verdict, client, outcome,
                   exit_code, test_result, status, logs>>

\* output = stdout.read()...; error = stderr.read()...
SSHRead ==
    /\ pc = "ssh_read"
    /\ \E o \in ReadOutcomes :
         IF o.cause = "ok"
         THEN /\ pc' = "ssh_exit_status"
              /\ UNCHANGED <<exc, cause>>
         ELSE /\ exc' = o.exc
              /\ cause' = o.cause
              /\ pc' = "ssh_except"
    /\ UNCHANGED <<conc, srv, op, raw, auth, command, checked, verdict, client, net,
                   outcome, exit_code, test_result, status, logs>>

\* exit_code = stdout.channel.recv_exit_status(); return output, error, ...
SSHExitStatus ==
    /\ pc = "ssh_exit_status"
    /\ \E code \in ExitCodes : exit_code' = code
    /\ outcome' = "result"
    /\ pc' = "ssh_finally"
    /\ UNCHANGED <<conc, srv, op, raw, auth, command, checked, verdict, client, exc,
                   cause, net, test_result, status, logs>>

\* The message the except clauses raise for an exception of class e:
\*   except paramiko.AuthenticationException -> "Authentication failed. ..."
\*   except paramiko.SSHException            -> "SSH connection failed: ..."
\*   except Exception                        -> "Error executing command: ..."
Classify(e) ==
    IF IsAuthenticationException(e) THEN "AuthenticationFailed"
    ELSE IF IsSSHException(e) THEN "TransportFailed"
    ELSE "ExecutionFailed"

\* SSHExcept retrying the connection once after a failed first attempt.
SSHExcept_RetryOnce ==
    /\ pc = "ssh_except"
    /\ IF Len(net) = 1 /\ ~IsAuthenticationException(exc)
       THEN /\ exc' = "none"
            /\ pc' = "ssh_connect"
            /\ outcome' = outcome
       ELSE /\ outcome' = Classify(exc)
            /\ exc' = "Exception"
            /\ pc' = "ssh_finally"
    /\ UNCHANGED <<conc, srv, op, raw, auth, command, checked, verdict, client, cause,
                   net, exit_code, test_result, status, logs>>

\* The except clauses: each raises a plain Exception carrying its message.
SSHExcept ==
    /\ pc = "ssh_except"
    /\ outcome' = Classify(exc)
    /\ exc' = "Exception"
    /\ pc' = "ssh_finally"
    /\ UNCHANGED <<conc, srv, op, raw, auth, command, checked, verdict, client, cause,
                   net, exit_code, test_result, status, logs>>

\* SSHFinally closing the client on the success path only.
SSHFinally_CloseOnSuccessOnly ==
    /\ pc = "ssh_finally"
    /\ client' = IF client # "None" /\ outcome = "result"
                 THEN "closed" ELSE client
    /\ pc' = IF outcome = "result" THEN "route_log" ELSE "route_except"
    /\ UNCHANGED <<conc, srv, op, raw, auth, command, checked, verdict, exc, cause, net,
                   outcome, exit_code, test_result, status, logs>>

\* finally: if client: client.close()
SSHFinally ==
    /\ pc = "ssh_finally"
    /\ client' = IF client # "None" THEN "closed" ELSE client
    /\ pc' = IF outcome = "result" THEN "route_log" ELSE "route_except"
    /\ UNCHANGED <<conc, srv, op, raw, auth, command, checked, verdict, exc, cause, net,
                   outcome, exit_code, test_result, status, logs>>

(***************************************************************************)
(* app.py: the execute_command route, after the call.                      *)
(***************************************************************************)
\* await db.create_log(log_data); return {...}
RouteLog ==
    /\ pc = "route_log"
    /\ logs' = Append(logs, [command |-> command, exit_code |-> exit_code])
    /\ status' = 200
    /\ pc' = "done"
    /\ UNCHANGED <<conc, srv, op, raw, auth, command, checked, verdict, client, exc,
                   cause, net, outcome, exit_code, test_result>>

\* except ValueError -> 400; except Exception -> 500
RouteExcept ==
    /\ pc = "route_except"
    /\ status' = IF exc = "ValueError" THEN 400 ELSE 500
    /\ pc' = "done"
    /\ UNCHANGED <<conc, srv, op, raw, auth, command, checked, verdict, client, exc,
                   cause, net, outcome, exit_code, test_result, logs>>

(***************************************************************************)
(* ssh_manager.py: SSHManager.test_connection                              *)
(***************************************************************************)
\* client = paramiko.SSHClient(); client.set_missing_host_key_policy(...)
TestCreateClient ==
    /\ pc = "test_create_client"
    /\ client' = "created"
    /\ pc' = "test_connect"
    /\ UNCHANGED <<conc, srv, op, raw, auth, command, checked, verdict, exc, cause, net,
                   outcome, exit_code, test_result, status, logs>>

\* if ssh_key: RSAKey.from_private_key(...); client.connect(pkey=..., timeout=10)
TestConnectKey ==
    /\ pc = "test_connect"
    /\ auth = "key"
    /\ \E k \in KeyParseOutcomes :
         IF k.cause = "ok"
         THEN Connect("test_exec", "test_except")
         ELSE /\ exc' = k.exc
              /\ cause' = k.cause
              /\ pc' = "test_except"
              /\ UNCHANGED <<client, net>>
    /\ UNCHANGED <<conc, srv, op, raw, auth, command, checked, verdict, outcome,
                   exit_code, test_result, status, logs>>

\* elif password: client.connect(password=..., timeout=10)
TestConnectPassword ==
    /\ pc = "test_connect"
    /\ auth = "password"
    /\ Connect("test_exec", "test_except")
    /\ UNCHANGED <<conc, srv, op, raw, auth, command, checked, verdict, outcome,
                   exit_code, test_result, status, logs>>

\* else: return False
TestConnectNone ==
    /\ pc = "test_connect"
    /\ auth = "none"
    /\ cause' = "no_credential"
    /\ outcome' = "False"
    /\ pc' = "test_finally"
    /\ UNCHANGED <<conc, srv, op, raw, auth, command, checked, verdict, client, exc, net,
                   exit_code, test_result, status, logs>>

\* stdin, stdout, stderr = client.exec_command("echo 'Connection successful'")
TestExec ==
    /\ pc = "test_exec"
    /\ net' = Append(net, [kind |-> "exec", cmd |-> ProbeCommand])
    /\ \E o \in ExecOutcomes :
         IF o.cause = "ok"
         THEN /\ pc' = "test_read"
              /\ UNCHANGED <<exc, cause>>
         ELSE /\ exc' = o.exc
              /\ cause' = o.cause
              /\ pc' = "test_except"
    /\ UNCHANGED <<conc, srv, op, raw, auth, command, checked, verdict, client, outcome,
                   exit_code, test_result, status, logs>>

\* output = stdout.read().decode().strip()
\* return "Connection successful" in output
TestRead ==
    /\ pc = "test_read"
    /\ \E echoed \in BOOLEAN : outcome' = IF echoed THEN "True" ELSE "False"
    /\ pc' = "test_finally"
    /\ UNCHANGED <<conc, srv, op, raw, auth, command, checked, verdict, client, exc,
                   cause, net, exit_code, test_result, status, logs>>

\* The channel has no timeout (exec_command is called without one): when the
\* host sends nothing and keeps the channel open, stdout.read() never returns.
TestReadBlocks ==
    /\ pc = "test_read"
    /\ cause' = "no_output"
    /\ pc' = "test_blocked"
    /\ UNCHANGED <<conc, srv, op, raw, auth, command, checked, verdict, client, exc, net,
                   outcome, exit_code, test_result, status, logs>>

\* TestExcept catching paramiko.SSHException only: anything else propagates.
TestExcept_OnlySSHException ==
    /\ pc = "test_except"
    /\ IF IsSSHException(exc)
       THEN outcome' = "False" /\ exc' = "none"
       ELSE outcome' = outcome /\ exc' = exc
    /\ pc' = "test_finally"
    /\ UNCHANGED <<conc, srv, op, raw, auth, command, checked, verdict, client, cause,
                   net, exit_code, test_result, status, logs>>

\* except Exception: return False
TestExcept ==
    /\ pc = "test_except"
    /\ outcome' = "False"
    /\ exc' = "none"
    /\ pc' = "test_finally"
    /\ UNCHANGED <<conc, srv, op, raw, auth, command, checked, verdict, client, cause,
                   net, exit_code, test_result, status, logs>>

\* finally: if client: client.close(); then the return takes effect
TestFinally ==
    /\ pc = "test_finally"
    /\ client' = IF client # "None" THEN "closed" ELSE client
    /\ test_result' = outcome
    /\ pc' = IF op = "test" THEN "done" ELSE "server_probed"
    /\ UNCHANGED <<conc, srv, op, raw, auth, command, checked, verdict, exc, cause, net,
                   outcome, exit_code, status, logs>>

(***************************************************************************)
(* app.py: the create_server and update_server routes.                     *)
(***************************************************************************)
\* test_success = ssh_manager.test_connection(..., password=..., ssh_key=...)
CallTestConnection ==
    /\ probe' = [called |-> TRUE,
                 password |-> PasswordArg(submitted),
                 ssh_key |-> SshKeyArg(submitted)]
    /\ auth' = AuthOf(PasswordArg(submitted), SshKeyArg(submitted))
    /\ pc' = "test_create_client"

\* create_server: if server.use_password and not server.password: 400;
\* otherwise the probe is called with the submitted credentials.
CreateServerCheck ==
    /\ op = "create_server"
    /\ pc = "create_check"
    /\ IF submitted.use_password /\ submitted.password = ""
       THEN /\ status' = 400
            /\ pc' = "done"
            /\ UNCHANGED <<auth, probe>>
       ELSE /\ CallTestConnection
            /\ status' = status
    /\ UNCHANGED <<conc, servers, submitted, target, op, raw, command, checked,
                   verdict, client, exc, cause, net, outcome, exit_code,
                   test_result, logs>>

\* update_server: server = await db.get_server(...); 404 when there is none;
\* otherwise the probe is called with the submitted credentials.
UpdateServerGet ==
    /\ op = "update_server"
    /\ pc = "update_get_server"
    /\ IF \E i \in 1..Len(servers) : servers[i].id = target
       THEN /\ CallTestConnection
            /\ status' = status
       ELSE /\ status' = 404
            /\ pc' = "done"
            /\ UNCHANGED <<auth, probe>>
    /\ UNCHANGED <<conc, servers, submitted, target, op, raw, command, checked,
                   verdict, client, exc, cause, net, outcome, exit_code,
                   test_result, logs>>

\* ServerProbed continuing to the save whatever the probe returned.
ServerProbed_IgnoresResult ==
    /\ pc = "server_probed"
    /\ pc' = "server_save"
    /\ UNCHANGED <<conc, srv, op, raw, auth, command, checked, verdict, client, exc,
                   cause, net, outcome, exit_code, test_result, status, logs>>

\* if not test_success: raise HTTPException(400, ...)
ServerProbed ==
    /\ pc = "server_probed"
    /\ IF test_result = "True"
       THEN /\ pc' = "server_save"
            /\ status' = status
       ELSE /\ pc' = "done"
            /\ status' = 400
    /\ UNCHANGED <<conc, srv, op, raw, auth, command, checked, verdict, client, exc,
                   cause, net, outcome, exit_code, test_result, logs>>

\* server_id = await db.create_server(current_user['id'], server.dict()):
\* the record is appended to the store; the route answers 200.
CreateServerSave ==
    /\ op = "create_server"
    /\ pc = "server_save"
    /\ servers' = Append(servers,
                         [id |-> Len(servers) + 1] @@ StoredFields(submitted))
    /\ status' = 200
    /\ pc' = "done"
    /\ UNCHANGED <<conc, submitted, target, probe, op, raw, auth, command, checked,
                   verdict, client, exc, cause, net, outcome, exit_code,
                   test_result, logs>>

\* success = await db.update_server(server_id, ..., server_update.dict()):
\* servers[i].update(update_data) on the stored record; 500 when the record
\* is not found.
UpdateServerSave ==
    /\ op = "update_server"
    /\ pc = "server_save"
    /\ IF \E i \in 1..Len(servers) : servers[i].id = target
       THEN /\ servers' = [i \in 1..Len(servers) |->
                             IF servers[i].id = target
                             THEN [id |-> target] @@ StoredFields(submitted)
                             ELSE servers[i]]
            /\ status' = 200
       ELSE /\ servers' = servers
            /\ status' = 500
    /\ pc' = "done"
    /\ UNCHANGED <<conc, submitted, target, probe, op, raw, auth, command, checked,
                   verdict, client, exc, cause, net, outcome, exit_code,
                   test_result, logs>>

(***************************************************************************)
(* The specification.                                                      *)
(***************************************************************************)
Next ==
    \/ RouteGetServer
    \/ RouteSanitize
    \/ SSHValidate
    \/ SSHCreateClient
    \/ SSHConnectKey
    \/ SSHConnectPassword
    \/ SSHConnectNone
    \/ SSHExec
    \/ SSHRead
    \/ SSHExitStatus
    \/ SSHExcept
    \/ SSHFinally
    \/ RouteLog
    \/ RouteExcept
    \/ TestCreateClient
    \/ TestConnectKey
    \/ TestConnectPassword
    \/ TestConnectNone
    \/ TestExec
    \/ TestRead
    \/ TestReadBlocks
    \/ TestExcept
    \/ TestFinally
    \/ CreateServerCheck
    \/ UpdateServerGet
    \/ ServerProbed
    \/ CreateServerSave
    \/ UpdateServerSave

Spec == Init /\ [][Next]_vars

(***************************************************************************)
(* Concurrent execute requests on the event loop.                          *)
(*                                                                         *)
(* The routes are coroutines of one asyncio event loop: one task runs at a *)
(* time, and a task gives up the loop's thread only at an await that       *)
(* suspends.  The awaits of the execute route that suspend are those of    *)
(* aiofiles in db.get_server and db.create_log, whose file operations run  *)
(* in a thread pool.  SSHManager.execute_command is declared async but     *)
(* awaits nothing: client.connect, exec_command and stdout.read are        *)
(* synchronous calls made on the loop's thread.                            *)
(* Every request here carries an allowed command for a server with a       *)
(* password, each against its own host.                                    *)
(***************************************************************************)
InitConc ==
    /\ op = "concurrent"
    /\ raw = <<>>
    /\ auth = "unset"
    /\ pc = "done"
    /\ submitted = NoSubmission
    /\ target = 0
    /\ command = <<>>
    /\ checked = <<>>
    /\ verdict = "none"
    /\ client = "None"
    /\ exc = "none"
    /\ cause = "none"
    /\ net = <<>>
    /\ outcome = "none"
    /\ exit_code = -1
    /\ test_result = "none"
    /\ status = 0
    /\ logs = <<>>
    /\ servers = StoredServers
    /\ probe = NoProbe
    /\ tpc = [t \in Tasks |-> "get_server"]
    /\ running = 0
    /\ tclient = [t \in Tasks |-> "None"]
    /\ cancelled = [t \in Tasks |-> FALSE]
    /\ tstatus = [t \in Tasks |-> 0]
    /\ tlogs = [t \in Tasks |-> <<>>]
    /\ logfile = <<>>

\* server = await db.get_server(...): _read_file's aiofiles read of
\* servers.json completes in the thread pool; the task waits for the loop.
CGetServerIO(t) ==
    /\ tpc[t] = "get_server"
    /\ tpc' = [tpc EXCEPT ![t] = "get_server_done"]
    /\ UNCHANGED <<single, running, tclient, cancelled, tstatus, tlogs,
                   logfile>>

\* The task resumes with the server record, sanitizes the command and calls
\* execute_command, which validates, creates the client and enters
\* client.connect on the loop's thread.
CEnterExecute(t) ==
    /\ tpc[t] = "get_server_done"
    /\ running = 0
    /\ tpc' = [tpc EXCEPT ![t] = "in_connect"]
    /\ tclient' = [tclient EXCEPT ![t] = "open"]
    /\ running' = t
    /\ UNCHANGED <<single, cancelled, tstatus, tlogs, logfile>>

\* client.connect returns or raises; on success exec_command is called and
\* the thread enters stdout.read(); on failure the except clause raises, the
\* finally clause closes the client and the route answers 500.
CConnect(t) ==
    /\ tpc[t] = "in_connect"
    /\ running = t
    /\ \E ok \in BOOLEAN :
         IF ok
         THEN /\ tpc' = [tpc EXCEPT ![t] = "in_read"]
              /\ UNCHANGED <<running, tclient, tstatus>>
         ELSE /\ tpc' = [tpc EXCEPT ![t] = "done"]
              /\ tclient' = [tclient EXCEPT ![t] = "closed"]
              /\ tstatus' = [tstatus EXCEPT ![t] = 500]
              /\ running' = 0
    /\ UNCHANGED <<single, cancelled, tlogs, logfile>>

\* stdout.read() / stderr.read() return or time out.  On success the exit
\* status is read, the client closed, and the route calls db.create_log,
\* whose _read_file suspends the task on aiofiles; on a timeout the client
\* is closed and the route answers 500.
CRead(t) ==
    /\ tpc[t] = "in_read"
    /\ running = t
    /\ \E ok \in BOOLEAN :
         IF ok
         THEN /\ tpc' = [tpc EXCEPT ![t] = "log_read"]
              /\ tstatus' = tstatus
         ELSE /\ tpc' = [tpc EXCEPT ![t] = "done"]
              /\ tstatus' = [tstatus EXCEPT ![t] = 500]
    /\ tclient' = [tclient EXCEPT ![t] = "closed"]
    /\ running' = 0
    /\ UNCHANGED <<single, cancelled, tlogs, logfile>>

\* create_log: logs = await self._read_file(self.logs_file).  The read of
\* logs.json is done in the thread pool; an empty file reads as [].
CLogReadIO(t) ==
    /\ tpc[t] = "log_read"
    /\ tlogs' = [tlogs EXCEPT ![t] = logfile]
    /\ tpc' = [tpc EXCEPT ![t] = "log_read_done"]
    /\ UNCHANGED <<single, running, tclient, cancelled, tstatus, logfile>>

\* The task resumes: logs.append(log_data), then _write_file opens the file
\* with mode 'w' through aiofiles and suspends.
CLogAppend(t) ==
    /\ tpc[t] = "log_read_done"
    /\ running = 0
    /\ tlogs' = [tlogs EXCEPT ![t] = Append(tlogs[t], t)]
    /\ tpc' = [tpc EXCEPT ![t] = "log_open"]
    /\ UNCHANGED <<single, running, tclient, cancelled, tstatus, logfile>>

\* aiofiles.open(file_path, 'w') in the thread pool: the file is truncated.
CLogOpenIO(t) ==
    /\ tpc[t] = "log_open"
    /\ logfile' = <<>>
    /\ tpc' = [tpc EXCEPT ![t] = "log_open_done"]
    /\ UNCHANGED <<single, running, tclient, cancelled, tstatus, tlogs>>

\* The task resumes inside `async with` and awaits f.write(json.dumps(data)).
CLogWrite(t) ==
    /\ tpc[t] = "log_open_done"
    /\ running = 0
    /\ tpc' = [tpc EXCEPT ![t] = "log_write"]
    /\ UNCHANGED <<single, running, tclient, cancelled, tstatus, tlogs,
                   logfile>>

\* The write (and the close that flushes it) in the thread pool: the file
\* holds the task's list.
CLogWriteIO(t) ==
    /\ tpc[t] = "log_write"
    /\ logfile' = tlogs[t]
    /\ tpc' = [tpc EXCEPT ![t] = "log_write_done"]
    /\ UNCHANGED <<single, running, tclient, cancelled, tstatus, tlogs>>

\* create_log returns and the route returns its result: 200.
CRespond(t) ==
    /\ tpc[t] = "log_write_done"
    /\ running = 0
    /\ tpc' = [tpc EXCEPT ![t] = "done"]
    /\ tstatus' = [tstatus EXCEPT ![t] = 200]
    /\ UNCHANGED <<single, running, tclient, cancelled, tlogs, logfile>>

\* The caller of request t aborts it (the connection of the enclosing
\* request is dropped).
CCancel(t) ==
    /\ tpc[t] # "done"
    /\ ~cancelled[t]
    /\ cancelled' = [cancelled EXCEPT ![t] = TRUE]
    /\ UNCHANGED <<single, tpc, running, tclient, tstatus, tlogs, logfile>>

\* The positions at which a task is suspended in an await.
Suspended ==
    {"get_server", "get_server_done", "log_read", "log_read_done",
     "log_open", "log_open_done", "log_write", "log_write_done"}

\* A cancellation of the task takes effect where the task is suspended:
\* asyncio raises CancelledError in the coroutine at that await, when the
\* loop runs.  No handler of the route catches it; the request ends
\* unanswered.  (The server may also leave the task running: the other
\* actions stay enabled for a cancelled task.)
CCancelledError(t) ==
    /\ cancelled[t]
    /\ tpc[t] \in Suspended
    /\ running = 0
    /\ tpc' = [tpc EXCEPT ![t] = "done"]
    /\ UNCHANGED <<single, running, tclient, cancelled, tstatus, tlogs,
                   logfile>>

\* The steps of request t.
CStep(t) ==
    \/ CGetServerIO(t)
    \/ CEnterExecute(t)
    \/ CConnect(t)
    \/ CRead(t)
    \/ CLogReadIO(t)
    \/ CLogAppend(t)
    \/ CLogOpenIO(t)
    \/ CLogWrite(t)
    \/ CLogWriteIO(t)
    \/ CRespond(t)
    \/ CCancelledError(t)

NextConc ==
    \E t \in Tasks :
        \/ CStep(t)
        \/ CCancel(t)

SpecConc == InitConc /\ [][NextConc]_vars

(***************************************************************************)
(* Properties.                                                             *)
(***************************************************************************)
\* The call of SSHManager.execute_command or test_connection has returned
\* or raised.
CallEnded ==
    pc \in {"route_log", "route_except", "server_probed", "server_save", "done"}

\* C1: on the execute path a network action (connect or exec_command) is
\* only ever performed after is_command_allowed returned true for the
\* command in hand; once the policy check has rejected the command, the
\* invocation performs no network action at all.
C1_NoNetworkUnlessAllowed ==
    op = "execute" =>
        /\ net # <<>> =>
             /\ verdict = "allowed"
             /\ checked = command
             /\ is_command_allowed(command)
        /\ verdict = "rejected" => net = <<>>

\* C1 witness: an invocation whose command the policy check rejected has
\* run to its end.
C1_Witness ==
    /\ op = "execute"
    /\ pc = "done"
    /\ verdict = "rejected"
    /\ ~is_command_allowed(command)
    /\ net = <<>>

\* C2: when execute_command or test_connection has returned or raised, the
\* SSH client the call created is closed, whatever the exit path.
C2_ClientClosedWhenCallEnded ==
    CallEnded => client \in {"None", "closed"}

\* C2 witness: a call that connected and then failed on the command timeout
\* has ended with its client closed.
C2_Witness ==
    /\ CallEnded
    /\ cause = "command_timeout"
    /\ Len(net) = 2
    /\ client = "closed"

\* C3: every command the execute path sends to the remote host is
\* sanitize_command(raw) of the request's raw command, and is the string
\* the policy check accepted.
C3_OnlySanitizedCommandSent ==
    op = "execute" =>
        \A i \in 1..Len(net) :
            net[i].kind = "exec" =>
                /\ net[i].cmd = sanitize_command(raw)
                /\ net[i].cmd = checked
                /\ verdict = "allowed"

\* C3 witness: a command was sent for a raw command that sanitizing changes.
C3_Witness ==
    /\ op = "execute"
    /\ \E i \in 1..Len(net) : net[i].kind = "exec" /\ net[i].cmd # raw
    /\ raw # sanitize_command(raw)

\* C4: is_command_allowed accepts only if the sanitized, lower-cased command
\* starts with an allow prefix, contains no blocked substring and matches no
\* dangerous pattern.
C4_AcceptedOnlyIfPolicyHoldsOfSanitized ==
    (op = "execute" /\ verdict = "allowed") =>
        LET x == lower(sanitize_command(raw))
        IN  /\ HasAllowedPrefix(x)
            /\ ~HasBlocked(x)
            /\ ~dangerous_patterns(x)

\* The verbs of the allow list: the allowed prefixes without their space.
AllowVerbs == {strip(allowed_prefixes[p]) : p \in 1..Len(allowed_prefixes)}

\* The first whitespace-delimited token of s.
FirstToken(s) ==
    LET t == strip(s)
        ws == {i \in 1..Len(t) : t[i] \in Whitespace}
    IN  IF ws = {} THEN t ELSE SubSeq(t, 1, SetMin(ws) - 1)

\* C5: is_command_allowed accepts a command only if its whole first
\* whitespace-delimited token is one of the allow-list verbs.
C5_AcceptedOnlyIfFirstTokenIsAllowVerb ==
    (op = "execute" /\ verdict = "allowed") =>
        FirstToken(lower(checked)) \in AllowVerbs

\* C6: sanitize_command is idempotent: sanitizing the sanitized command
\* gives the sanitized command.
C6_SanitizeIdempotent ==
    (op = "execute" /\ pc \notin {"route_get_server", "route_sanitize"}) =>
        sanitize_command(command) = command

\* C7: the output of sanitize_command contains none of ; & | backquote $ < >
C7_NoDangerousCharInSanitized ==
    (op = "execute" /\ pc \notin {"route_get_server", "route_sanitize"}) =>
        \A i \in 1..Len(command) :
            command[i] \notin {";", "&", "|", Backquote, "$", "<", ">"}

\* C7 witness: a raw command holding both ; and $ has been sanitized to a
\* command that is not empty.
C7_Witness ==
    /\ op = "execute"
    /\ pc = "ssh_validate"
    /\ \E i \in 1..Len(raw) : raw[i] = ";"
    /\ \E i \in 1..Len(raw) : raw[i] = "$"
    /\ command # <<>>

\* C8: a command the policy rejects, or a server with neither password nor
\* key material, is answered with a client error (4xx), never a 5xx.
C8_ClientErrorForPolicyAndCredential ==
    (/\ op = "execute"
     /\ pc = "done"
     /\ verdict = "rejected" \/ cause = "no_credential")
        => status \in 400..499

\* Failures of the transport: handshake or session level.
TransportCauses ==
    {"negotiation_failed", "host_unreachable", "connection_reset",
     "session_lost"}

\* C9: after the policy check every failure is classified into one kind:
\* rejected credentials as authentication-failed, transport failures
\* (unreachable host, failed negotiation, connection reset) as
\* transport-failed, and only other failures as execution-failed.
C9_FailureClassification ==
    (op = "execute" /\ verdict = "allowed" /\ outcome \notin {"none", "result"})
        => /\ cause = "auth_rejected" => outcome = "AuthenticationFailed"
           /\ cause \in TransportCauses => outcome = "TransportFailed"
           /\ outcome = "ExecutionFailed" =>
                cause \notin TransportCauses \cup {"auth_rejected"}

\* C10: a remote command that does not complete within the command timeout
\* ends the call with a transport-failed/timeout error, not the generic
\* execution-failed error, and with the session closed.
C10_TimeoutIsTransportFailedAndClosed ==
    (op = "execute" /\ cause = "command_timeout" /\ CallEnded)
        => /\ outcome = "TransportFailed"
           /\ client = "closed"

\* The connection attempts made so far.
ConnectCount == Cardinality({i \in 1..Len(net) : net[i].kind = "connect"})

\* The remote command dispatches made so far.
ExecCount == Cardinality({i \in 1..Len(net) : net[i].kind = "exec"})

\* C13: with neither a password nor key material, execute_command and
\* test_connection make no connection attempt; execute_command ends with
\* an error and test_connection returns false.
C13_NoCredentialNoConnect ==
    (op \in {"execute", "test"} /\ auth = "none") =>
        /\ net = <<>>
        /\ (op = "execute" /\ CallEnded) =>
             outcome \in {"AuthenticationFailed", "TransportFailed",
                          "ExecutionFailed"}
        /\ (op = "test" /\ pc = "done") => test_result = "False"

\* C13 witness: execute_command was called with an allowed command and
\* neither credential, and has ended.
C13_Witness ==
    /\ op = "execute"
    /\ auth = "none"
    /\ verdict = "allowed"
    /\ cause = "no_credential"
    /\ client = "closed"
    /\ pc = "done"

\* C14: test_connection never raises; it returns false for every network,
\* authentication or key-parsing failure and for a missing credential, and
\* true only after a successful connect and the probe command's output.
C14_TestConnectionNeverRaises ==
    (op = "test" /\ pc = "done") =>
        /\ test_result \in {"True", "False"}
        /\ exc = "none"
        /\ cause # "none" => test_result = "False"
        /\ test_result = "True" =>
             /\ cause = "none"
             /\ net = << [kind |-> "connect", cmd |-> <<>>],
                         [kind |-> "exec", cmd |-> ProbeCommand] >>

\* C14 witness: test_connection has returned after the host could not be
\* reached.
C14_Witness ==
    /\ op = "test"
    /\ pc = "done"
    /\ cause = "host_unreachable"
    /\ test_result = "False"

\* C15: every test_connection call returns a boolean: as long as it has not
\* returned it can take a further step, also when the host accepted the
\* connection and then sends nothing and keeps the channel open.
C15_TestConnectionReturns ==
    op = "test" =>
        \/ pc = "done" /\ test_result \in {"True", "False"}
        \/ ENABLED Next

\* C16: one execute invocation makes at most one connection attempt and at
\* most one command dispatch, whatever fails, and delivers one outcome: the
\* response is set when and only when the invocation ends, a result
\* (logged once) or an error.
C16_NoRetryOneOutcome ==
    op = "execute" =>
        /\ ConnectCount <= 1
        /\ ExecCount <= 1
        /\ pc = "done" <=> status # 0
        /\ pc = "done" =>
             /\ status = 200 <=> outcome = "result"
             /\ Len(logs) = IF outcome = "result" THEN 1 ELSE 0
        /\ pc # "done" => logs = <<>>

\* C16 witness: an invocation whose connection was reset has ended with an
\* error after its single attempt.
C16_Witness ==
    /\ op = "execute"
    /\ pc = "done"
    /\ cause = "connection_reset"
    /\ ConnectCount = 1
    /\ status = 500

\* The credentials a stored record makes the execute route use:
\* the password if use_password, else the key (app.py, execute_command).
StoredPasswordArg(rec) ==
    IF rec.use_password /\ rec.password # "" THEN B64Decode(rec.password)
    ELSE ""

StoredSshKeyArg(rec) == IF ~rec.use_password THEN rec.ssh_key ELSE ""

InNetworkCall(t) == tpc[t] \in {"in_connect", "in_read"}

\* C11: while one invocation is blocked in connection establishment or in
\* reading the output of a slow host, every other unfinished invocation can
\* still take a step.
C11_OthersProgressWhileBlocked ==
    \A t \in Tasks : \A u \in Tasks \ {t} :
        (InNetworkCall(t) /\ tpc[u] # "done") => ENABLED CStep(u)

\* C12: once the caller of an in-flight invocation has aborted it, the
\* invocation does not go on connecting, executing or reading: its only
\* further move is the teardown, which leaves the session closed.
C12_CancelledInvocationTornDown ==
    [][\A t \in Tasks :
          (cancelled[t] /\ InNetworkCall(t) /\ tpc'[t] # tpc[t]) =>
              /\ tpc'[t] = "done"
              /\ tclient'[t] = "closed"]_vars

\* The requests that were answered with the command's result.
Succeeded == {t \in Tasks : tstatus[t] = 200}

\* C17: after any interleaving of concurrent successful executions the log
\* store holds exactly one record for each of them.
C17_OneLogRecordPerExecution ==
    (\A t \in Tasks : tpc[t] = "done" /\ tstatus[t] = 200) =>
        /\ Len(logfile) = Cardinality(Succeeded)
        /\ \A t \in Succeeded : \E i \in 1..Len(logfile) : logfile[i] = t

====
